---- MODULE Spec2Model ----
(***************************************************************************)
(* A model of src/main.py: the FastAPI service with GET /health and        *)
(* GET /stock/{symbol}.  get_stock_price is a coroutine; its suspension    *)
(* points are the three awaits of                                          *)
(*     async with AsyncWebCrawler(...) as crawler:      (__aenter__)       *)
(*         result = await crawler.arun(...)             (arun)             *)
(*                                                      (__aexit__)        *)
(* and between two of them its code runs without interleaving.             *)
(*                                                                         *)
(* Text is modelled as a sequence of pieces (a piece is a TLA+ string),    *)
(* concatenation as \o.  The collaborator's extracted_content is a         *)
(* sequence of JSON tokens, and json.loads is a parser over that sequence. *)
(* A symbol is a sequence of characters.                                   *)
(***************************************************************************)
EXTENDS Integers, Sequences, FiniteSets, TLC

\* ------------------------------------------------------------------ bounds
NumRequests == 2      \* concurrent GET /stock requests
MaxSymLen == 1        \* longest symbol of the exhaustive input set
MaxTokens == 2        \* longest extracted_content enumerated token by token

Requests == 1..NumRequests

\* ------------------------------------------------------------------ state
VARIABLES
    pc,           \* per request: "idle", "aenter", "arun", "aexit" (suspended there), "done"
    input,        \* the path parameter as received
    symbol,       \* the local `symbol` after line 61
    url,          \* the local `yahoo_finance_url`
    crawler,      \* the AsyncWebCrawler the request constructed (0: none yet)
    runs,         \* how many times the request has called crawler.arun
    runUrl,       \* the url argument of that call
    result,       \* what arun delivered to the request
    pending,      \* how the try block ended, while __aexit__ runs
    resp,         \* the HTTP response of the request
    log,          \* the lines the request has written to the log, in order
    nextCrawler,  \* how many AsyncWebCrawler objects have been constructed
    openCrawlers, \* the crawlers whose browser session is open
    health,       \* the last response of GET /health
    healthSaw     \* what was going on when it was served

vars == <<pc, input, symbol, url, crawler, runs, runUrl, result, pending, resp, log,
          nextCrawler, openCrawlers, health, healthSaw>>

\* ------------------------------------------------------------------ symbols
SymChars == {"a", "A", "1"}

\* str.upper, one character
UpperChar(c) == IF c = "a" THEN "A" ELSE c

\* str.upper
Upper(s) == [i \in 1..Len(s) |-> UpperChar(s[i])]

\* symbol = symbol.upper()
\* (variant: the symbol is used as received)
NormalizeSymbolKeepCase(s) == s
NormalizeSymbol(s) == Upper(s)

\* f"https://finance.yahoo.com/quote/{symbol}/"
BuildUrl(sym) == <<"https://finance.yahoo.com/quote/">> \o sym \o <<"/">>

RECURSIVE SeqsUpTo(_, _)
SeqsUpTo(S, n) ==
    IF n = 0 THEN {<<>>}
    ELSE LET shorter == SeqsUpTo(S, n - 1)
         IN  shorter \cup {Append(q, x) : q \in shorter, x \in S}

\* ------------------------------------------------------------------ JSON
\* A parsed JSON value as Python holds it; every value has the same shape.
\* An object's items are its members (key in s, value as the one item), in
\* insertion order, each key once.
JNull == [t |-> "null", s |-> "", items |-> <<>>]
JStr(x) == [t |-> "str", s |-> x, items |-> <<>>]
JNum(x) == [t |-> "num", s |-> x, items |-> <<>>]
JArr(xs) == [t |-> "arr", s |-> "", items |-> xs]
JMember(k, v) == [t |-> "member", s |-> k, items |-> <<v>>]
JObj(ms) == [t |-> "obj", s |-> "", items |-> ms]
\* no value at all (Python has no such object; the model needs a filler)
NoValue == [t |-> "none", s |-> "", items |-> <<>>]

\* Tokens of the content text.
Tok(k, v) == [k |-> k, v |-> v]
LBracket == Tok("punct", "[")
RBracket == Tok("punct", "]")
LBrace == Tok("punct", "{")
RBrace == Tok("punct", "}")
Comma == Tok("punct", ",")
Colon == Tok("punct", ":")
TStr(x) == Tok("str", x)
TNum(x) == Tok("num", x)
TNull == Tok("lit", "null")
TJunk == Tok("junk", "N/A")

\* dict[key] = value: the last value of a repeated key wins, in the first place
PutMember(ms, k, v) ==
    IF \E i \in 1..Len(ms) : ms[i].s = k
    THEN [i \in 1..Len(ms) |-> IF ms[i].s = k THEN JMember(k, v) ELSE ms[i]]
    ELSE Append(ms, JMember(k, v))

ParseOk(v, next) == [ok |-> TRUE, val |-> v, next |-> next, msg |-> ""]
\* json.JSONDecodeError(msg, doc, pos)
ParseFail(msg, pos) == [ok |-> FALSE, val |-> NoValue, next |-> pos, msg |-> msg]

RECURSIVE ScanOnce(_, _), ArrayItems(_, _, _), ObjectMembers(_, _, _)

\* json.scanner: one value starting at token i
ScanOnce(toks, i) ==
    IF i > Len(toks) THEN ParseFail("Expecting value", i)
    ELSE LET tok == toks[i] IN
         CASE tok.k = "str" -> ParseOk(JStr(tok.v), i + 1)
           [] tok.k = "num" -> ParseOk(JNum(tok.v), i + 1)
           [] tok.k = "lit" -> ParseOk(JNull, i + 1)
           [] tok = LBracket ->
                IF i + 1 <= Len(toks) /\ toks[i + 1] = RBracket
                THEN ParseOk(JArr(<<>>), i + 2)
                ELSE ArrayItems(toks, i + 1, <<>>)
           [] tok = LBrace ->
                IF i + 1 <= Len(toks) /\ toks[i + 1].k = "str"
                THEN ObjectMembers(toks, i + 1, <<>>)
                ELSE IF i + 1 <= Len(toks) /\ toks[i + 1] = RBrace
                THEN ParseOk(JObj(<<>>), i + 2)
                ELSE ParseFail("Expecting property name enclosed in double quotes", i + 1)
           [] OTHER -> ParseFail("Expecting value", i)

\* json.decoder.JSONArray, after the opening bracket of a non-empty array
ArrayItems(toks, i, acc) ==
    LET r == ScanOnce(toks, i) IN
    IF ~r.ok THEN r
    ELSE LET j == r.next
             acc2 == Append(acc, r.val)
         IN  IF j <= Len(toks) /\ toks[j] = RBracket THEN ParseOk(JArr(acc2), j + 1)
             ELSE IF j <= Len(toks) /\ toks[j] = Comma THEN ArrayItems(toks, j + 1, acc2)
             ELSE ParseFail("Expecting ',' delimiter", j)

\* json.decoder.JSONObject, at a member's key (token i is a string)
ObjectMembers(toks, i, acc) ==
    IF ~(i + 1 <= Len(toks) /\ toks[i + 1] = Colon)
    THEN ParseFail("Expecting ':' delimiter", i + 1)
    ELSE LET r == ScanOnce(toks, i + 2) IN
         IF ~r.ok THEN r
         ELSE LET j == r.next
                  acc2 == PutMember(acc, toks[i].v, r.val)
              IN  IF j <= Len(toks) /\ toks[j] = RBrace THEN ParseOk(JObj(acc2), j + 1)
                  ELSE IF ~(j <= Len(toks) /\ toks[j] = Comma)
                  THEN ParseFail("Expecting ',' delimiter", j)
                  ELSE IF j + 1 <= Len(toks) /\ toks[j + 1].k = "str"
                  THEN ObjectMembers(toks, j + 1, acc2)
                  ELSE ParseFail("Expecting property name enclosed in double quotes", j + 1)

\* json.loads(text): one value, then the end of the text
JsonLoads(toks) ==
    LET r == ScanOnce(toks, 1) IN
    IF ~r.ok THEN r
    ELSE IF r.next <= Len(toks) THEN ParseFail("Extra data", r.next)
    ELSE r

\* json.dumps, token by token (what a collaborator that extracted v returns)
RECURSIVE Serialize(_), SerializeItems(_, _)
Serialize(v) ==
    CASE v.t = "str" -> <<TStr(v.s)>>
      [] v.t = "num" -> <<TNum(v.s)>>
      [] v.t = "null" -> <<TNull>>
      [] v.t = "member" -> <<TStr(v.s), Colon>> \o Serialize(v.items[1])
      [] v.t = "arr" -> <<LBracket>> \o SerializeItems(v.items, 1) \o <<RBracket>>
      [] v.t = "obj" -> <<LBrace>> \o SerializeItems(v.items, 1) \o <<RBrace>>
SerializeItems(xs, i) ==
    IF i > Len(xs) THEN <<>>
    ELSE Serialize(xs[i]) \o (IF i < Len(xs) THEN <<Comma>> ELSE <<>>)
         \o SerializeItems(xs, i + 1)

\* Python truth value of a parsed JSON value: `not v`
Falsy(v) ==
    \/ v.t \in {"null", "none"}
    \/ v.t = "str" /\ v.s = ""
    \/ v.t = "num" /\ v.s = "0"
    \/ v.t \in {"arr", "obj"} /\ v.items = <<>>

\* type(v).__name__
PyType(v) ==
    CASE v.t = "str" -> "str"
      [] v.t = "num" -> "int"
      [] v.t = "arr" -> "list"
      [] v.t = "obj" -> "dict"
      [] OTHER -> "NoneType"

\* dict.get(key, None)
DictGet(obj, key) ==
    IF \E i \in 1..Len(obj.items) : obj.items[i].s = key
    THEN (CHOOSE m \in {obj.items[i] : i \in 1..Len(obj.items)} : m.s = key).items[1]
    ELSE JNull

\* ------------------------------------------------------------------ exceptions
NoException == [cls |-> "none", status |-> 0, text |-> <<>>]
\* HTTPException(status_code=..., detail=...)
HTTPException(status, detail) == [cls |-> "HTTPException", status |-> status, text |-> detail]
\* any other exception: its class and its message
Raised(cls, text) == [cls |-> cls, status |-> 0, text |-> text]

\* the JSONDecodeError json.loads raises: "<msg>: line 1 column <pos> (char <pos-1>)",
\* positions counted in tokens
JSONDecodeError(p) ==
    Raised("JSONDecodeError",
           <<p.msg, ": line 1 column ", ToString(p.next), " (char ", ToString(p.next - 1), ")">>)

\* str(e); for an HTTPException "<status_code>: <detail>"
Str(e) ==
    IF e.cls = "HTTPException" THEN <<ToString(e.status), ": ">> \o e.text ELSE e.text

\* ------------------------------------------------------------------ get_stock_price
DetailNoContent == <<"Price not found for the given symbol.">>
DetailNoPrice == <<"Price not found in the extracted data.">>
DetailParsePrefix == <<"Failed to parse extracted data: ">>
DetailCrawlPrefix == <<"Error fetching stock price: ">>

\* what crawler.arun delivered: result.extracted_content is a text or None
Content(toks) == [kind |-> "content", toks |-> toks, exc |-> NoException]
Absent == [kind |-> "absent", toks |-> <<>>, exc |-> NoException]
RunFailed(e) == [kind |-> "raise", toks |-> <<>>, exc |-> e]
\* arun was never called: AsyncWebCrawler.__aenter__ raised
LaunchFailed(e) == [kind |-> "launch", toks |-> <<>>, exc |-> e]
NoResult == [kind |-> "none", toks |-> <<>>, exc |-> NoException]

\* how a block of the handler ends: with a return value or a raised exception
Returns(sym, price) == [kind |-> "return", symbol |-> sym, price |-> price, exc |-> NoException]
Raises(e) == [kind |-> "raise", symbol |-> <<>>, price |-> NoValue, exc |-> e]
NoOutcome == [kind |-> "none", symbol |-> <<>>, price |-> NoValue, exc |-> NoException]

\* price = data[0].get("price", None) if data else None
ReadPrice(data) ==
    IF Falsy(data) THEN Returns(<<>>, JNull)
    ELSE CASE data.t = "arr" ->
                IF data.items[1].t = "obj"
                THEN Returns(<<>>, DictGet(data.items[1], "price"))
                ELSE Raises(Raised("AttributeError",
                         <<"'", PyType(data.items[1]), "' object has no attribute 'get'">>))
           [] data.t = "obj" -> Raises(Raised("KeyError", <<"0">>))
           [] data.t = "str" ->
                Raises(Raised("AttributeError", <<"'", "str", "' object has no attribute 'get'">>))
           [] OTHER ->
                Raises(Raised("TypeError", <<"'", PyType(data), "' object is not subscriptable">>))

\* `if not price`
\* (variant: `if price is None`)
PriceMissingOnlyNone(price) == price.t = "null"
PriceMissing(price) == Falsy(price)

\* `if not result.extracted_content`
ContentMissing(res) == res.kind = "absent" \/ res.toks = <<>>

\* the block under `async with`, after arun has returned
\* (variant: a price any request has answered is reused)
BodyCached(sym, res) ==
    IF \E q \in Requests : resp[q].status = 200
    THEN Returns(sym, resp[CHOOSE q \in Requests : resp[q].status = 200].price)
    ELSE IF ContentMissing(res) THEN Raises(HTTPException(404, DetailNoContent))
    ELSE LET parsed == JsonLoads(res.toks) IN
         IF ~parsed.ok THEN Raises(JSONDecodeError(parsed))
         ELSE LET read == ReadPrice(parsed.val) IN
              IF read.kind = "raise" THEN read
              ELSE IF PriceMissing(read.price) THEN Raises(HTTPException(404, DetailNoPrice))
              ELSE Returns(sym, read.price)
Body(sym, res) ==
    IF ContentMissing(res) THEN Raises(HTTPException(404, DetailNoContent))
    ELSE LET parsed == JsonLoads(res.toks) IN
         IF ~parsed.ok THEN Raises(JSONDecodeError(parsed))
         ELSE LET read == ReadPrice(parsed.val) IN
              IF read.kind = "raise" THEN read
              ELSE IF PriceMissing(read.price) THEN Raises(HTTPException(404, DetailNoPrice))
              ELSE Returns(sym, read.price)

\* the lines Body logs
BodyLog(res) ==
    <<[level |-> "INFO", msg |-> "Raw extracted content"]>> \o
    (IF ContentMissing(res)
     THEN <<[level |-> "ERROR", msg |-> "No extracted content found."]>>
     ELSE LET parsed == JsonLoads(res.toks) IN
          IF parsed.ok /\ ReadPrice(parsed.val).kind = "return"
             /\ PriceMissing(ReadPrice(parsed.val).price)
          THEN <<[level |-> "ERROR", msg |-> "Price not found in extracted data."]>>
          ELSE <<>>)

\* the except clauses: the first whose class matches the exception handles it.
\* Every class here derives from Exception, HTTPException included.
\* (variant: `except Exception` written first)
ExceptClausesCatchAllFirst(e) == HTTPException(500, DetailCrawlPrefix \o Str(e))
ExceptClauses(e) ==
    IF e.cls = "JSONDecodeError"
    THEN HTTPException(500, DetailParsePrefix \o Str(e))
    ELSE HTTPException(500, DetailCrawlPrefix \o Str(e))

ExceptLog(e) ==
    IF e.cls = "JSONDecodeError"
    THEN <<[level |-> "ERROR", msg |-> "JSON decoding error"]>>
    ELSE <<[level |-> "ERROR", msg |-> "Error during crawl"]>>

\* ------------------------------------------------------------------ responses
NoResponse == [status |-> 0, kind |-> "none", symbol |-> <<>>, price |-> NoValue, detail |-> <<>>]
\* return {"symbol": symbol, "price": price}
QuoteResponse(sym, price) ==
    [status |-> 200, kind |-> "quote", symbol |-> sym, price |-> price, detail |-> <<>>]
\* FastAPI's answer to an HTTPException leaving the handler
ErrorResponse(e) ==
    [status |-> e.status, kind |-> "detail", symbol |-> <<>>, price |-> NoValue, detail |-> e.text]

\* the response of a handler whose try block ended with `outcome`
Respond(outcome) ==
    IF outcome.kind = "return" THEN QuoteResponse(outcome.symbol, outcome.price)
    ELSE ErrorResponse(ExceptClauses(outcome.exc))

\* return {"status": "healthy"}
\* (variant: the answer depends on how the crawls went)
HealthBodyFromCrawler ==
    IF \E r \in Requests : resp[r].status = 500 THEN "unhealthy" ELSE "healthy"
HealthBody == "healthy"

NoHealth == [status |-> 0, body |-> ""]
NothingSeen == [suspended |-> FALSE, failed |-> FALSE]

\* ------------------------------------------------------------------ inputs
\* every symbol up to MaxSymLen characters
AllSymbols == SeqsUpTo(SymChars, MaxSymLen) \ {<<>>}

TokenAlphabet ==
    {LBracket, RBracket, LBrace, RBrace, Comma, Colon,
     TStr("price"), TStr("189.50"), TStr(""), TNum("0"), TNull, TJunk}

Scalars == {JStr(""), JStr("189.50"), JNum("0"), JNum("5"), JNull}
Objects ==
    {JObj(<<>>)}
    \cup {JObj(<<JMember(k, v)>>) : k \in {"price", "name"}, v \in Scalars}
    \cup {JObj(<<JMember("name", JStr("Apple")), JMember("price", v)>>) : v \in Scalars}
Arrays ==
    {JArr(<<>>)}
    \cup {JArr(<<x>>) : x \in Scalars \cup Objects \cup {JArr(<<>>)}}
    \cup {JArr(<<x, y>>) : x, y \in {JObj(<<>>), JObj(<<JMember("price", JStr("")) >>),
                                    JObj(<<JMember("price", JStr("189.50"))>>),
                                    JObj(<<JMember("price", JStr("7.25"))>>)}}
Documents == Scalars \cup Objects \cup Arrays

\* texts that are no JSON document: a document cut short, or followed by more
Damaged ==
    UNION {{SubSeq(Serialize(d), 1, n) : n \in 1..(Len(Serialize(d)) - 1)} :
             d \in Objects \cup Arrays}
    \cup {Serialize(d) \o <<x>> : d \in Objects, x \in {TJunk, RBrace}}
    \cup {<<LBrace, TStr("price"), Colon, TStr(""), Comma,
            TStr("price"), Colon, TStr("189.50"), RBrace>>,
          <<LBracket, LBrace, TStr("price"), Colon, TStr("189.50"), Comma,
            TStr("price"), Colon, TStr(""), RBrace, RBracket>>,
          <<LBracket, LBrace, TStr("price"), Colon, TStr("189.50"), Comma, RBrace, RBracket>>,
          <<LBracket, LBrace, TStr("price"), TStr("189.50"), RBrace, RBracket>>,
          <<LBracket, TStr("189.50"), Comma, RBracket>>}

AllResults ==
    {Absent}
    \cup {Content(t) : t \in SeqsUpTo(TokenAlphabet, MaxTokens)}
    \cup {Content(Serialize(d)) : d \in Documents}
    \cup {Content(t) : t \in Damaged}

PricedDocument == JArr(<<JObj(<<JMember("price", JStr("189.50"))>>)>>)
EmptyPriceDocument == JArr(<<JObj(<<JMember("price", JStr(""))>>)>>)

\* the inputs of the concurrent specification
FewSymbols == {<<"a">>, <<"A">>}
FewResults ==
    {Absent, Content(<<TJunk>>), Content(Serialize(EmptyPriceDocument)),
     Content(Serialize(PricedDocument))}

\* exceptions of the collaborator: starting the browser, running the crawl
LaunchErrors == {Raised("Error", <<"BrowserType.launch: Executable doesn't exist">>)}
RunErrors == {Raised("TimeoutError", <<"Page.goto: Timeout 60000ms exceeded.">>)}

\* ------------------------------------------------------------------ operations
Init ==
    /\ pc = [r \in Requests |-> "idle"]
    /\ input = [r \in Requests |-> <<>>]
    /\ symbol = [r \in Requests |-> <<>>]
    /\ url = [r \in Requests |-> <<>>]
    /\ crawler = [r \in Requests |-> 0]
    /\ runs = [r \in Requests |-> 0]
    /\ runUrl = [r \in Requests |-> <<>>]
    /\ result = [r \in Requests |-> NoResult]
    /\ pending = [r \in Requests |-> NoOutcome]
    /\ resp = [r \in Requests |-> NoResponse]
    /\ log = [r \in Requests |-> <<>>]
    /\ nextCrawler = 0
    /\ openCrawlers = {}
    /\ health = NoHealth
    /\ healthSaw = NothingSeen

\* GET /stock/{s} arrives: the handler runs to its first await, the __aenter__
\* of the crawler it has just constructed
StockRequest(r, s) ==
    /\ pc[r] = "idle"
    /\ input' = [input EXCEPT ![r] = s]
    /\ symbol' = [symbol EXCEPT ![r] = NormalizeSymbol(s)]
    /\ url' = [url EXCEPT ![r] = BuildUrl(NormalizeSymbol(s))]
    /\ log' = [log EXCEPT ![r] = Append(@, [level |-> "INFO", msg |-> "Attempting to crawl"])]
    /\ nextCrawler' = nextCrawler + 1
    /\ crawler' = [crawler EXCEPT ![r] = nextCrawler + 1]
    /\ pc' = [pc EXCEPT ![r] = "aenter"]
    /\ UNCHANGED <<runs, runUrl, result, pending, resp, openCrawlers, health, healthSaw>>

\* __aenter__ returns: the session is open; the handler calls arun and waits
SessionEnter(r) ==
    /\ pc[r] = "aenter"
    /\ openCrawlers' = openCrawlers \cup {crawler[r]}
    /\ runs' = [runs EXCEPT ![r] = @ + 1]
    /\ runUrl' = [runUrl EXCEPT ![r] = url[r]]
    /\ pc' = [pc EXCEPT ![r] = "arun"]
    /\ UNCHANGED <<input, symbol, url, crawler, result, pending, resp, log, nextCrawler,
                   health, healthSaw>>

\* __aenter__ raises: no session was opened, the except clauses take the exception
SessionEnterFail(r, e) ==
    /\ pc[r] = "aenter"
    /\ result' = [result EXCEPT ![r] = LaunchFailed(e)]
    /\ resp' = [resp EXCEPT ![r] = Respond(Raises(e))]
    /\ log' = [log EXCEPT ![r] = @ \o ExceptLog(e)]
    /\ pc' = [pc EXCEPT ![r] = "done"]
    /\ UNCHANGED <<input, symbol, url, crawler, runs, runUrl, pending, nextCrawler,
                   openCrawlers, health, healthSaw>>

\* arun returns `res`: the rest of the with block runs, and leaving the block
\* (by return or by raise) waits in __aexit__
ArunReturn(r, res) ==
    /\ pc[r] = "arun"
    /\ result' = [result EXCEPT ![r] = res]
    /\ pending' = [pending EXCEPT ![r] = Body(symbol[r], res)]
    /\ log' = [log EXCEPT ![r] = @ \o BodyLog(res)]
    /\ pc' = [pc EXCEPT ![r] = "aexit"]
    /\ UNCHANGED <<input, symbol, url, crawler, runs, runUrl, resp, nextCrawler,
                   openCrawlers, health, healthSaw>>

\* arun raises e: the with block is left by that exception
\* (variant: a failed arun is called again)
ArunRaiseRetry(r, e) ==
    /\ pc[r] = "arun"
    /\ runs[r] < 2
    /\ runs' = [runs EXCEPT ![r] = @ + 1]
    /\ UNCHANGED <<pc, input, symbol, url, crawler, runUrl, result, pending, resp, log,
                   nextCrawler, openCrawlers, health, healthSaw>>
ArunRaise(r, e) ==
    /\ pc[r] = "arun"
    /\ result' = [result EXCEPT ![r] = RunFailed(e)]
    /\ pending' = [pending EXCEPT ![r] = Raises(e)]
    /\ pc' = [pc EXCEPT ![r] = "aexit"]
    /\ UNCHANGED <<input, symbol, url, crawler, runs, runUrl, resp, log, nextCrawler,
                   openCrawlers, health, healthSaw>>

\* __aexit__ returns: the session is closed; a return value becomes the response,
\* an exception goes through the except clauses
\* (variant: the session is closed on return only, as without `async with`)
SessionExitOnSuccessOnly(r) ==
    /\ pc[r] = "aexit"
    /\ openCrawlers' = IF pending[r].kind = "return" THEN openCrawlers \ {crawler[r]}
                       ELSE openCrawlers
    /\ resp' = [resp EXCEPT ![r] = Respond(pending[r])]
    /\ log' = [log EXCEPT ![r] =
                  IF pending[r].kind = "raise" THEN @ \o ExceptLog(pending[r].exc) ELSE @]
    /\ pc' = [pc EXCEPT ![r] = "done"]
    /\ UNCHANGED <<input, symbol, url, crawler, runs, runUrl, result, pending, nextCrawler,
                   health, healthSaw>>
SessionExit(r) ==
    /\ pc[r] = "aexit"
    /\ openCrawlers' = openCrawlers \ {crawler[r]}
    /\ resp' = [resp EXCEPT ![r] = Respond(pending[r])]
    /\ log' = [log EXCEPT ![r] =
                  IF pending[r].kind = "raise" THEN @ \o ExceptLog(pending[r].exc) ELSE @]
    /\ pc' = [pc EXCEPT ![r] = "done"]
    /\ UNCHANGED <<input, symbol, url, crawler, runs, runUrl, result, pending, nextCrawler,
                   health, healthSaw>>

\* GET /health: no await, the handler runs in one step
HealthCheck ==
    /\ health' = [status |-> 200, body |-> HealthBody]
    /\ healthSaw' = [suspended |-> \E r \in Requests : pc[r] \in {"aenter", "arun", "aexit"},
                     failed |-> \E r \in Requests : resp[r].status = 500]
    /\ UNCHANGED <<pc, input, symbol, url, crawler, runs, runUrl, result, pending, resp, log,
                   nextCrawler, openCrawlers>>

\* concurrent requests, a few inputs each
Next ==
    \/ \E r \in Requests, s \in FewSymbols : StockRequest(r, s)
    \/ \E r \in Requests : SessionEnter(r)
    \/ \E r \in Requests, e \in LaunchErrors : SessionEnterFail(r, e)
    \/ \E r \in Requests, res \in FewResults : ArunReturn(r, res)
    \/ \E r \in Requests, e \in RunErrors : ArunRaise(r, e)
    \/ \E r \in Requests : SessionExit(r)
    \/ HealthCheck

Spec == Init /\ [][Next]_vars

\* one request, every input
PipelineNext ==
    \/ \E s \in AllSymbols : StockRequest(1, s)
    \/ SessionEnter(1)
    \/ \E e \in LaunchErrors : SessionEnterFail(1, e)
    \/ \E res \in AllResults : ArunReturn(1, res)
    \/ \E e \in RunErrors : ArunRaise(1, e)
    \/ SessionExit(1)

PipelineSpec == Init /\ [][PipelineNext]_vars

\* ------------------------------------------------------------------ claims
Done(r) == pc[r] = "done"

\* the first element of a parsed array is an object with a truthy "price"
HasPrice(d) ==
    /\ d.t = "arr" /\ d.items # <<>>
    /\ d.items[1].t = "obj"
    /\ ~Falsy(DictGet(d.items[1], "price"))

\* the detail mentions "not found"
MentionsNotFound(detail) ==
    \E i \in 1..Len(detail) : detail[i] \in {DetailNoContent[1], DetailNoPrice[1]}

\* C1: when arun returns empty or absent extracted content, the response is
\* HTTP 404 with a detail mentioning "not found".
C1_EmptyContentIs404 ==
    \A r \in Requests :
        Done(r) /\ result[r].kind \in {"content", "absent"} /\ ContentMissing(result[r])
        => resp[r].status = 404 /\ MentionsNotFound(resp[r].detail)

\* C2: when the content parses as JSON and the array is empty, or its first
\* element has no price, or the price is falsy, the response is HTTP 404 and
\* never 200.
C2_MissingPriceIs404 ==
    \A r \in Requests :
        Done(r) /\ result[r].kind = "content" /\ result[r].toks # <<>>
        => LET d == JsonLoads(result[r].toks) IN
           d.ok /\ d.val.t = "arr"
           /\ (d.val.items = <<>>
               \/ (d.val.items[1].t = "obj" /\ Falsy(DictGet(d.val.items[1], "price"))))
           => resp[r].status = 404

\* C3: for every symbol s and non-empty price p, the content [{"price": p}]
\* gives HTTP 200 with the body {symbol: upper(s), price: p}; and a 200 is given
\* only when the first element of the parsed array holds a non-empty price,
\* which is the price of the body.
C3_PricedContentIs200 ==
    \A r \in Requests : Done(r) =>
        /\ \A p \in Scalars :
              ~Falsy(p) /\ result[r] = Content(Serialize(JArr(<<JObj(<<JMember("price", p)>>)>>)))
              => resp[r] = [status |-> 200, kind |-> "quote", symbol |-> Upper(input[r]),
                            price |-> p, detail |-> <<>>]
        /\ resp[r].status = 200
              => /\ result[r].kind = "content"
                 /\ JsonLoads(result[r].toks).ok
                 /\ HasPrice(JsonLoads(result[r].toks).val)
                 /\ resp[r].price = DictGet(JsonLoads(result[r].toks).val.items[1], "price")
                 /\ resp[r].symbol = Upper(input[r])

C3_Witness ==
    \E r \in Requests :
        /\ Done(r) /\ input[r] = <<"a">>
        /\ result[r] = Content(Serialize(PricedDocument))
        /\ resp[r].status = 200 /\ resp[r].symbol = <<"A">> /\ resp[r].price = JStr("189.50")

\* C4: non-empty content that is not valid JSON gives HTTP 500 whose detail is
\* the parse-failure prefix followed by the parser's error text; the detail is
\* not the one of the catch-all clause.
C4_MalformedContentIs500 ==
    \A r \in Requests :
        Done(r) /\ result[r].kind = "content" /\ result[r].toks # <<>>
        /\ ~JsonLoads(result[r].toks).ok
        => /\ resp[r].status = 500 /\ resp[r].kind = "detail"
           /\ resp[r].detail = DetailParsePrefix \o Str(JSONDecodeError(JsonLoads(result[r].toks)))
           /\ resp[r].detail[2] = JsonLoads(result[r].toks).msg
           /\ resp[r].detail[1] # DetailCrawlPrefix[1]
           /\ log[r][Len(log[r])].msg = "JSON decoding error"

C4_Witness ==
    \E r \in Requests :
        /\ Done(r)
        /\ result[r] = Content(<<LBracket, LBrace, TStr("price"), TStr("189.50"), RBrace, RBracket>>)
        /\ resp[r].status = 500
        /\ resp[r].detail[2] = "Expecting ':' delimiter"

\* C5: every failure is classified by its cause: content missing (no content,
\* or no price) gives 404; a parse error or an exception of the collaborator
\* gives 500 with the stringified error; every failure carries a detail.
C5_FailuresClassified ==
    \A r \in Requests : Done(r) =>
        /\ resp[r].kind \in {"quote", "detail"}
        /\ resp[r].kind = "detail" => resp[r].status \in {404, 500}
        /\ result[r].kind \in {"raise", "launch"}
              => resp[r].status = 500 /\ resp[r].detail = DetailCrawlPrefix \o Str(result[r].exc)
        /\ result[r].kind \in {"content", "absent"} /\ ContentMissing(result[r])
              => resp[r].status = 404
        /\ result[r].kind = "content" /\ result[r].toks # <<>>
              => LET d == JsonLoads(result[r].toks) IN
                 /\ ~d.ok => resp[r].status = 500
                 /\ d.ok /\ ReadPrice(d.val).kind = "return" /\ Falsy(ReadPrice(d.val).price)
                       => resp[r].status = 404

\* C6: the symbol is uppercased before the URL is built and before arun is
\* called: the URL given to arun and the symbol of a 200 response hold
\* upper(s), with no lowercase letter, and two requests whose symbols differ
\* only in case call arun with the same URL.
LowerChar(c) == IF c = "A" THEN "a" ELSE c
SameButCase(s, t) ==
    Len(s) = Len(t) /\ \A i \in 1..Len(s) : LowerChar(s[i]) = LowerChar(t[i])
NoLowercase(s) == \A i \in 1..Len(s) : s[i] # "a"

C6_SymbolUppercased ==
    \A r \in Requests :
        /\ pc[r] # "idle" => symbol[r] = Upper(input[r]) /\ url[r] = BuildUrl(Upper(input[r]))
        /\ runs[r] > 0 =>
              /\ runUrl[r] = <<"https://finance.yahoo.com/quote/">> \o Upper(input[r]) \o <<"/">>
              /\ NoLowercase(SubSeq(runUrl[r], 2, Len(runUrl[r]) - 1))
        /\ resp[r].status = 200 => resp[r].symbol = Upper(input[r]) /\ NoLowercase(resp[r].symbol)
        /\ \A q \in Requests :
              runs[r] > 0 /\ runs[q] > 0 /\ SameButCase(input[r], input[q])
              => runUrl[r] = runUrl[q]

C6_Witness ==
    \E r, q \in Requests :
        /\ input[r] = <<"a">> /\ input[q] = <<"A">>
        /\ runs[r] = 1 /\ runs[q] = 1 /\ runUrl[r] = runUrl[q]
        /\ resp[r].status = 200 /\ resp[r].symbol = <<"A">>

\* C7: in every reachable state GET /health can be served, answers 200 with
\* {"status": "healthy"}, and serving it neither calls the collaborator nor
\* touches or waits for any stock request.
C7_HealthAlwaysHealthy ==
    /\ [](/\ ENABLED HealthCheck
          /\ health # NoHealth => health = [status |-> 200, body |-> "healthy"])
    /\ [][HealthCheck =>
            /\ health' = [status |-> 200, body |-> "healthy"]
            /\ UNCHANGED <<pc, runs, runUrl, crawler, nextCrawler, openCrawlers, result,
                           pending, resp>>]_vars

C7_Witness ==
    /\ health = [status |-> 200, body |-> "healthy"]
    /\ healthSaw.suspended /\ healthSaw.failed

\* C8 as stated: every request that has ended has called arun exactly once.
C8_ExactlyOneRun ==
    \A r \in Requests : Done(r) => runs[r] = 1

\* C8 as amended: a request calls arun at most once, on every outcome; exactly
\* once when its session opened, and not at all when opening the session
\* failed; there is no response before the call has returned or raised, or
\* opening the session has failed.
C8_AtMostOneRun ==
    \A r \in Requests :
        /\ runs[r] <= 1
        /\ pc[r] \in {"arun", "aexit"} => runs[r] = 1
        /\ Done(r) => \/ runs[r] = 1 /\ result[r].kind \in {"content", "absent", "raise"}
                      \/ runs[r] = 0 /\ result[r].kind = "launch"
        /\ resp[r] # NoResponse => Done(r) /\ result[r] # NoResult
        /\ pc[r] \in {"idle", "aenter", "arun"} => result[r] = NoResult /\ resp[r] = NoResponse

C8_Witness ==
    \E r, q \in Requests :
        /\ Done(r) /\ runs[r] = 1 /\ result[r].kind = "raise" /\ resp[r].status = 500
        /\ Done(q) /\ runs[q] = 0 /\ result[q].kind = "launch"

\* C9: a session a request opened is closed on every way out and before the
\* response exists; when every request has ended no session is open; the
\* open sessions are those of the requests between __aenter__ and __aexit__,
\* each request with a crawler of its own.
C9_SessionReleased ==
    /\ openCrawlers = {crawler[r] : r \in {q \in Requests : pc[q] \in {"arun", "aexit"}}}
    /\ \A r \in Requests : resp[r] # NoResponse => crawler[r] \notin openCrawlers
    /\ (\A r \in Requests : pc[r] \in {"idle", "done"}) => openCrawlers = {}
    /\ \A r, q \in Requests : r # q /\ crawler[r] # 0 => crawler[r] # crawler[q]

C9_Witness ==
    \E r, q \in Requests :
        /\ Done(r) /\ pending[r].kind = "raise" /\ result[r].kind = "raise"
        /\ Done(q) /\ pending[q].kind = "return"
        /\ openCrawlers = {}

\* C10: under every interleaving a response is determined by the request's
\* own symbol and own collaborator result: equal inputs give equal responses,
\* what a response holds comes from the request's own input and result, a step
\* changes the state of one request only, and a response once given stays.
Local(r) ==
    <<pc[r], input[r], symbol[r], url[r], crawler[r], runs[r], runUrl[r], result[r],
      pending[r], resp[r], log[r]>>

C10_RequestsIndependent ==
    /\ [](\A r \in Requests : Done(r) =>
            /\ \A q \in Requests :
                  Done(q) /\ Upper(input[q]) = Upper(input[r]) /\ result[q] = result[r]
                  => resp[q] = resp[r]
            /\ resp[r].status = 200 =>
                  /\ resp[r].symbol = Upper(input[r])
                  /\ \E i \in 1..Len(result[r].toks) :
                        result[r].toks[i] = Tok(resp[r].price.t, resp[r].price.s)
            /\ result[r].kind \in {"raise", "launch"} =>
                  resp[r].detail = DetailCrawlPrefix \o result[r].exc.text)
    /\ [][/\ \A r, q \in Requests : r # q /\ Local(r)' # Local(r) => Local(q)' = Local(q)
          /\ \A r \in Requests : resp[r] # NoResponse => resp'[r] = resp[r]]_vars

C10_Witness ==
    \E r, q \in Requests :
        /\ crawler[r] # 0 /\ crawler[r] < crawler[q]
        /\ pc[r] = "arun"
        /\ Done(q) /\ resp[q].status = 500 /\ result[q].kind = "raise"

====
